---- MODULE Spec2Model ----
(***************************************************************************)
(* A model of the CV generator service (src/main.py): the record           *)
(* generators of CVGenerator, the story built by CVGenerator.create_pdf,   *)
(* and the four request handlers, foremost download_multiple_cvs_zip.      *)
(*                                                                         *)
(* Text is modelled as a sequence of fragments.  Text that the code        *)
(* edits character by character (the display name, the filenames) is a     *)
(* sequence of one-character strings.                                      *)
(***************************************************************************)
EXTENDS Integers, Sequences, FiniteSets, TLC

VARIABLES
    styles,        \* cv_generator.styles: the style sheet, name -> style
    rng,           \* the random sources every generate_* call draws from
    clock,         \* the wall clock datetime.now() reads: [day, sec]
    pc,            \* per request: the handler's position
    kind,          \* per request: which endpoint it called
    count,         \* per request: the {count} path parameter
    i,             \* per request: the loop variable of the batch loops
    cv,            \* per request: cv_data, the record of the current iteration
    pdf,           \* per request: pdf_buffer, the last rendered document
    zip,           \* per request: the entries written to zip_file so far
    cvs,           \* per request: the list generate_multiple_cvs collects
    response,      \* per request: what the handler returned or raised
    synthesized,   \* per request: records synthesized so far
    rendered,      \* per request: create_pdf calls that returned so far
    switches,      \* per request: times the synthesized name changed
    story,         \* per request: the story of the create_pdf call under study
    experiences,   \* generate_work_experience: the list being built
    filename       \* the filename computed by the naming step under study

vars == <<styles, rng, clock, pc, kind, count, i, cv, pdf, zip, cvs, response,
          synthesized, rendered, switches, story, experiences, filename>>

\* Python's None where a record may stand, and an absent sequence or number.
None == [none |-> TRUE]

Absent == <<>>

-----------------------------------------------------------------------------
(* Bounds of the model.                                                    *)

\* Times, within one request, that the name drawn from Faker may differ
\* from the name of the previous record.
MaxNameSwitch == 1
\* Longest display name fed to the filename functions.
MaxNameLen == 3
\* Longest experience list, education list and responsibility list of the
\* records fed to create_pdf.
MaxExps == 2
MaxEdus == 2
MaxResps == 2
\* Largest count of a request when two requests run concurrently.
MaxConcCount == 2
\* The random sources are abstracted to a position in their stream.
RngPeriod == 8

-----------------------------------------------------------------------------
(* Program constants.                                                      *)

\* `if count > 20` of download_multiple_cvs_zip and generate_multiple_cvs.
MaxCount == 20
\* random.randint(2, 5): the number of experience entries.
MinExpEntries == 2
MaxExpEntries == 5
\* random.randint(0, 3): the number of certifications.
MaxCerts == 3

-----------------------------------------------------------------------------
(* Strings.                                                                *)

DigitChars == <<"0", "1", "2", "3", "4", "5", "6", "7", "8", "9">>

Digit(n) == DigitChars[n + 1]

RECURSIVE Pow10(_)
Pow10(w) == IF w = 0 THEN 1 ELSE 10 * Pow10(w - 1)

RECURSIVE NumDigits(_)
NumDigits(n) == IF n < 10 THEN 1 ELSE 1 + NumDigits(n \div 10)

\* format(n, "0<w>d") for n >= 0: at least w digits, zero-padded on the left.
ZeroPad(n, w) ==
    LET len == IF NumDigits(n) > w THEN NumDigits(n) ELSE w
    IN  [k \in 1..len |-> Digit((n \div Pow10(len - k)) % 10)]

\* str.replace(old, new) for a one-character old and a new of length <= 1.
RECURSIVE Replace(_, _, _)
Replace(s, old, new) ==
    IF s = <<>> THEN <<>>
    ELSE (IF Head(s) = old THEN new ELSE <<Head(s)>>) \o Replace(Tail(s), old, new)

-----------------------------------------------------------------------------
(* Dates: datetime, timedelta(days=...) and strftime.                      *)

\* The civil date of a day number (days since 1970-01-01), as datetime
\* computes it in the proleptic Gregorian calendar.
CivilFromDays(days) ==
    LET z    == days + 719468
        era  == z \div 146097
        doe  == z - era * 146097
        yoe  == (doe - doe \div 1460 + doe \div 36524 - doe \div 146096) \div 365
        doy  == doe - (365 * yoe + yoe \div 4 - yoe \div 100)
        mp   == (5 * doy + 2) \div 153
        d    == doy - (153 * mp + 2) \div 5 + 1
        m    == IF mp < 10 THEN mp + 3 ELSE mp - 9
        y    == yoe + era * 400 + (IF m <= 2 THEN 1 ELSE 0)
    IN  [year |-> y, month |-> m, day |-> d]

\* strftime('%m/%Y')
StrfMonthYear(days) ==
    LET c == CivilFromDays(days)
    IN  ZeroPad(c.month, 2) \o <<"/">> \o ZeroPad(c.year, 4)

\* strftime("%Y%m%d_%H%M%S")
StrfTimestamp(now) ==
    LET c == CivilFromDays(now.day)
    IN  ZeroPad(c.year, 4) \o ZeroPad(c.month, 2) \o ZeroPad(c.day, 2) \o <<"_">>
        \o ZeroPad(now.sec \div 3600, 2) \o ZeroPad((now.sec \div 60) % 60, 2)
        \o ZeroPad(now.sec % 60, 2)

\* The instants the wall clock takes: the last second of 2026-11-05 and the
\* first of the next day.
Clocks == <<[day |-> 20762, sec |-> 86399], [day |-> 20763, sec |-> 0]>>

-----------------------------------------------------------------------------
(* The style sheet: getSampleStyleSheet() and setup_custom_styles.         *)

\* The styles of reportlab's sample sheet that the code reads.
getSampleStyleSheet ==
    [n \in {"Normal", "Heading1", "Heading2"} |->
        CASE n = "Normal"   -> [name |-> "Normal", fontSize |-> 10, spaceAfter |-> 0,
                                alignment |-> 0, textColor |-> "black"]
          [] n = "Heading1" -> [name |-> "Heading1", fontSize |-> 18, spaceAfter |-> 6,
                                alignment |-> 0, textColor |-> "black"]
          [] n = "Heading2" -> [name |-> "Heading2", fontSize |-> 14, spaceAfter |-> 6,
                                alignment |-> 0, textColor |-> "black"]]

\* ParagraphStyle(name, parent, **overrides): the parent's attributes, overridden.
ParagraphStyle(parent, overrides) == overrides @@ parent

\* styles.add(style)
StylesAdd(sheet, style) == (style.name :> style) @@ sheet

setup_custom_styles(sheet) ==
    LET s1 == StylesAdd(sheet, ParagraphStyle(sheet["Heading1"],
                  [name |-> "CVTitle", fontSize |-> 18, spaceAfter |-> 30,
                   alignment |-> 1, textColor |-> "darkblue"]))
        s2 == StylesAdd(s1, ParagraphStyle(s1["Heading2"],
                  [name |-> "SectionHeader", fontSize |-> 14, spaceAfter |-> 12,
                   textColor |-> "darkblue", borderWidth |-> 1,
                   borderColor |-> "darkblue", borderPadding |-> 5]))
    IN  StylesAdd(s2, ParagraphStyle(s2["Normal"],
                  [name |-> "ContactInfo", fontSize |-> 10, alignment |-> 1,
                   spaceAfter |-> 20]))

-----------------------------------------------------------------------------
(* The record generators.  What a generator draws at random is an argument *)
(* of its operator; the actions choose the arguments.                      *)

\* The display names Faker draws in the request handlers.
NamePool == { <<"A", "l", " ", "B", "o">>, <<"B", "o", ",", " ", "J", "r">> }

generate_personal_info(name) ==
    [name     |-> name,
     email    |-> "al@example.org",
     phone    |-> "555-0100",
     address  |-> <<"1 Main St", ", ", "Springfield", ", ", "Ohio", " ", "45501">>,
     linkedin |-> <<"linkedin.com/in/", "albo">>,
     summary  |-> "Seasoned professional."]

Present == <<"P", "r", "e", "s", "e", "n", "t">>

\* fake.sentence(), the k-th of a responsibilities list.
Sentences == <<"Led the team.", "Shipped the product.", "Cut the costs.",
               "Trained the staff.", "Wrote the reports.">>

Sentence(k) == Sentences[((k - 1) % Len(Sentences)) + 1]

\* One iteration of the loop of generate_work_experience: the entry for loop
\* index idx (0-based), with the draws d of that iteration.
ExperienceEntry(today, idx, d) ==
    LET end_date   == today - d.end_days * idx
        start_date == end_date - d.start_days
    IN  [position         |-> d.position,
         company          |-> d.company,
         start_date       |-> StrfMonthYear(start_date),
         end_date         |-> IF idx > 0 THEN StrfMonthYear(end_date) ELSE Present,
         responsibilities |-> [k \in 1..d.nresp |-> Sentence(k)]]

\* generate_work_experience with the draws of all its iterations.
generate_work_experience(today, draws) ==
    [k \in 1..Len(draws) |-> ExperienceEntry(today, k - 1, draws[k])]

\* One iteration of the loop of generate_education; gpa is in hundredths.
EducationEntry(d) ==
    [degree      |-> d.degree,
     institution |-> d.institution,
     year        |-> ZeroPad(d.grad_year, 1),
     gpa         |-> IF d.with_gpa THEN <<d.gpa>> ELSE Absent]

generate_education(draws) == [k \in 1..Len(draws) |-> EducationEntry(draws[k])]

\* random.sample results.
generate_skills ==
    [technical |-> <<"Python", "SQL", "Docker", "Git", "Linux">>,
     soft      |-> <<"Leadership", "Communication", "Adaptability">>]

CertPool == {"AWS Certified Solutions Architect", "Scrum Master Certification",
             "CompTIA Security+"}

\* random.sample(certs, random.randint(0, 3)): no element twice.
CertSamples ==
    UNION { { s \in [1..k -> CertPool] : \A a, b \in 1..k : a # b => s[a] # s[b] }
            : k \in 0..MaxCerts }

-----------------------------------------------------------------------------
(* create_pdf: the story.                                                  *)

\* The "\u2022 " that starts a bullet paragraph (the module is ASCII).
Bullet == "{U+2022} "

Paragraph(text, style) == [type |-> "Paragraph", text |-> text, style |-> style]

Spacer(width, height) == [type |-> "Spacer", width |-> width, height |-> height]

\* sep.join(items), as fragments
RECURSIVE Join(_, _)
Join(sep, items) ==
    IF items = <<>> THEN <<>>
    ELSE IF Len(items) = 1 THEN <<items[1]>>
    ELSE <<items[1], sep>> \o Join(sep, Tail(items))

\* Python's truth value of edu['gpa'].
Truthy(v) == v # Absent /\ v[1] # 0

\* str() of a float given in hundredths: 375 is "3.75", 350 is "3.5", 400 is "4.0".
FloatStr(h) ==
    ZeroPad(h \div 100, 1) \o <<".">>
    \o (IF h % 10 = 0 THEN ZeroPad((h \div 10) % 10, 1) ELSE ZeroPad(h % 100, 2))

ContactInfo(p) ==
    <<p.email, " | ", p.phone, "<br/>", p.address, "<br/>", p.linkedin>>

RECURSIVE ExperienceBlocksNoSpacer(_, _)
ExperienceBlocksNoSpacer(exps, st) ==
    IF exps = <<>> THEN <<>>
    ELSE LET exp == Head(exps)
         IN  <<Paragraph(<<"<b>", exp.position, "</b> - ", exp.company, " (",
                           exp.start_date, " - ", exp.end_date, ")">>, st["Normal"])>>
             \o [k \in 1..Len(exp.responsibilities) |->
                     Paragraph(<<Bullet, exp.responsibilities[k]>>, st["Normal"])]
             \o ExperienceBlocksNoSpacer(Tail(exps), st)

\* for exp in cv_data['experience']: header, responsibilities, Spacer(1, 8)
RECURSIVE ExperienceBlocks(_, _)
ExperienceBlocks(exps, st) ==
    IF exps = <<>> THEN <<>>
    ELSE LET exp == Head(exps)
         IN  <<Paragraph(<<"<b>", exp.position, "</b> - ", exp.company, " (",
                           exp.start_date, " - ", exp.end_date, ")">>, st["Normal"])>>
             \o [k \in 1..Len(exp.responsibilities) |->
                     Paragraph(<<Bullet, exp.responsibilities[k]>>, st["Normal"])]
             \o <<Spacer(1, 8)>>
             \o ExperienceBlocks(Tail(exps), st)

\* for edu in cv_data['education']: one paragraph, Spacer(1, 8)
RECURSIVE EducationBlocks(_, _)
EducationBlocks(edus, st) ==
    IF edus = <<>> THEN <<>>
    ELSE LET edu  == Head(edus)
             base == <<"<b>", edu.degree, "</b><br/>", edu.institution, ", ", edu.year>>
             text == IF Truthy(edu.gpa) THEN base \o <<" (GPA: ", FloatStr(edu.gpa[1]), ")">> ELSE base
         IN  <<Paragraph(text, st["Normal"]), Spacer(1, 8)>>
             \o EducationBlocks(Tail(edus), st)

CertificationBlocksAlways(certs, st) ==
    <<Paragraph(<<"CERTIFICATIONS">>, st["SectionHeader"])>>
    \o [k \in 1..Len(certs) |-> Paragraph(<<Bullet, certs[k]>>, st["Normal"])]

\* if cv_data['certifications']: header, one bullet per certification
CertificationBlocks(certs, st) ==
    IF certs # <<>>
    THEN <<Paragraph(<<"CERTIFICATIONS">>, st["SectionHeader"])>>
         \o [k \in 1..Len(certs) |-> Paragraph(<<Bullet, certs[k]>>, st["Normal"])]
    ELSE <<>>

\* The story create_pdf hands to doc.build.
Story(data, st) ==
    <<Paragraph(data.personal.name, st["CVTitle"]),
      Paragraph(ContactInfo(data.personal), st["ContactInfo"]),
      Paragraph(<<"PROFESSIONAL SUMMARY">>, st["SectionHeader"]),
      Paragraph(<<data.personal.summary>>, st["Normal"]),
      Spacer(1, 12),
      Paragraph(<<"WORK EXPERIENCE">>, st["SectionHeader"])>>
    \o ExperienceBlocks(data.experience, st)
    \o <<Paragraph(<<"EDUCATION">>, st["SectionHeader"])>>
    \o EducationBlocks(data.education, st)
    \o <<Paragraph(<<"SKILLS">>, st["SectionHeader"]),
         Paragraph(<<"<b>Technical:</b> ">> \o Join(", ", data.skills.technical), st["Normal"]),
         Paragraph(<<"<b>Soft Skills:</b> ">> \o Join(", ", data.skills.soft), st["Normal"]),
         Spacer(1, 8)>>
    \o CertificationBlocks(data.certifications, st)

\* doc.build(story) into the buffer: the document, abstracted to whose it is
\* and how many flowables were laid out.
Build(st) == [title |-> st[1].text, flowables |-> Len(st)]

create_pdf(data, st) == Build(Story(data, st))

-----------------------------------------------------------------------------
(* Filenames.                                                              *)

\* name.replace(' ', '_').replace(',', '')
SanitizeName(name) == Replace(Replace(name, " ", <<"_">>), ",", <<>>)

\* f"CV_{name}_{timestamp}.pdf"
SingleFilename(name, now) ==
    <<"C", "V", "_">> \o SanitizeName(name) \o <<"_">> \o StrfTimestamp(now)
    \o <<".", "p", "d", "f">>

BatchFilenameNoIndex(name, now, idx) == SingleFilename(name, now)

BatchFilenameZeroBased(name, now, idx) ==
    <<"C", "V", "_">> \o SanitizeName(name) \o <<"_">> \o StrfTimestamp(now)
    \o <<"_">> \o ZeroPad(idx, 3) \o <<".", "p", "d", "f">>

\* f"CV_{name}_{timestamp}_{i+1:03d}.pdf", idx the loop variable i
BatchFilename(name, now, idx) ==
    <<"C", "V", "_">> \o SanitizeName(name) \o <<"_">> \o StrfTimestamp(now)
    \o <<"_">> \o ZeroPad(idx + 1, 3) \o <<".", "p", "d", "f">>

\* f"CVs_Batch_{timestamp}_{count}_files.zip"
ZipFilename(now, n) ==
    <<"C", "V", "s", "_", "B", "a", "t", "c", "h", "_">> \o StrfTimestamp(now)
    \o <<"_">> \o ZeroPad(n, 1)
    \o <<"_", "f", "i", "l", "e", "s", ".", "z", "i", "p">>

-----------------------------------------------------------------------------
(* The state after the module is loaded, and the steps shared by the       *)
(* handlers.                                                               *)

Reqs == DOMAIN pc

\* The draws of the records the request handlers synthesize, but for the name.
HandlerExpDraws ==
    <<[end_days |-> 30, start_days |-> 365, position |-> "Software Engineer",
       company |-> "TechCorp Inc.", nresp |-> 2],
      [end_days |-> 200, start_days |-> 730, position |-> "Data Analyst",
       company |-> "Innovation Labs", nresp |-> 3]>>

HandlerEduDraws ==
    <<[degree |-> "Bachelor of Engineering", institution |-> "State University",
       grad_year |-> 2015, with_gpa |-> TRUE, gpa |-> 375]>>

\* The cv_data dict the four handlers build.
SynthRecord(name, now) ==
    [personal       |-> generate_personal_info(name),
     experience     |-> generate_work_experience(now.day, HandlerExpDraws),
     education      |-> generate_education(HandlerEduDraws),
     skills         |-> generate_skills,
     certifications |-> <<"Scrum Master Certification">>]

\* The random sources after the draws of one record: the module-level random
\* generator and the generator of cv_generator.fake both move on.
Advance(g) == [faker |-> (g.faker + 1) % RngPeriod, random |-> (g.random + 1) % RngPeriod]

\* R: the requests in flight; rec: the record each holds to start with.
InitWith(R, rec) ==
    /\ styles = setup_custom_styles(getSampleStyleSheet)
    /\ rng = [faker |-> 0, random |-> 0]
    /\ clock = Clocks[1]
    /\ pc = [r \in R |-> "idle"]
    /\ kind = [r \in R |-> "none"]
    /\ count = [r \in R |-> 0]
    /\ i = [r \in R |-> 0]
    /\ cv = [r \in R |-> rec]
    /\ pdf = [r \in R |-> None]
    /\ zip = [r \in R |-> <<>>]
    /\ cvs = [r \in R |-> <<>>]
    /\ response = [r \in R |-> None]
    /\ synthesized = [r \in R |-> 0]
    /\ rendered = [r \in R |-> 0]
    /\ switches = [r \in R |-> 0]
    /\ story = [r \in R |-> <<>>]
    /\ experiences = <<>>
    /\ filename = Absent

\* The wall clock moves to its next instant.
Tick ==
    /\ \E k \in 1..(Len(Clocks) - 1) : clock = Clocks[k] /\ clock' = Clocks[k + 1]
    /\ UNCHANGED <<styles, rng, pc, kind, count, i, cv, pdf, zip, cvs, response,
                   synthesized, rendered, switches, story, experiences, filename>>

\* The name of the previous record of request r, if any.
PrevName(r) == IF cv[r] = None THEN Absent ELSE cv[r].personal.name

\* The five generate_* calls that build cv_data, drawing the name `name`.
Synthesize(r, name) ==
    /\ \/ PrevName(r) \in {Absent, name} /\ switches' = switches
       \/ /\ PrevName(r) \notin {Absent, name}
          /\ switches[r] < MaxNameSwitch
          /\ switches' = [switches EXCEPT ![r] = @ + 1]
    /\ cv' = [cv EXCEPT ![r] = SynthRecord(name, clock)]
    /\ synthesized' = [synthesized EXCEPT ![r] = @ + 1]
    /\ rng' = Advance(rng)

\* An exception leaves the handler: the framework answers 500, and nothing the
\* handler built is returned.
RenderFailureReturnsPartial(r) ==
    /\ pc' = [pc EXCEPT ![r] = "failed"]
    /\ response' = [response EXCEPT ![r] =
           [status |-> 200, media |-> "application/zip", body |-> zip[r]]]

RenderFailure(r) ==
    /\ pc' = [pc EXCEPT ![r] = "failed"]
    /\ response' = [response EXCEPT ![r] = [status |-> 500]]

-----------------------------------------------------------------------------
(* download_multiple_cvs_zip                                               *)

TooManyOffByOne(c) == c > MaxCount + 1

\* if count > 20
TooMany(c) == c > MaxCount

\* The counts a zip request is made with.
BatchCounts == 0..(MaxCount + 2)

\* The request arrives; the count is checked before anything else.
BatchBegin(r, c) ==
    /\ pc[r] = "idle"
    /\ kind' = [kind EXCEPT ![r] = "zip"]
    /\ count' = [count EXCEPT ![r] = c]
    /\ IF TooMany(c)
       THEN /\ pc' = [pc EXCEPT ![r] = "rejected"]
            /\ response' = [response EXCEPT ![r] =
                   [status |-> 400,
                    detail |-> "Maximum 20 CVs can be generated at once"]]
            /\ UNCHANGED <<zip, i>>
       ELSE /\ pc' = [pc EXCEPT ![r] = "loop"]
            /\ zip' = [zip EXCEPT ![r] = <<>>]
            /\ i' = [i EXCEPT ![r] = 0]
            /\ UNCHANGED response
    /\ UNCHANGED <<styles, rng, clock, cv, pdf, cvs, synthesized, rendered,
                   switches, story, experiences, filename>>

\* for i in range(count): cv_data = {...}
BatchSynth(r) ==
    /\ pc[r] = "loop"
    /\ i[r] < count[r]
    /\ \E name \in NamePool : Synthesize(r, name)
    /\ pc' = [pc EXCEPT ![r] = "render"]
    /\ UNCHANGED <<styles, clock, kind, count, i, pdf, zip, cvs, response,
                   rendered, story, experiences, filename>>

BatchRenderAhead(r) ==
    /\ pdf' = [pdf EXCEPT ![r] = create_pdf(cv[r], styles)]
    /\ rendered' = [rendered EXCEPT ![r] = @ + 1]
    /\ pc' = [pc EXCEPT ![r] = IF rendered[r] + 1 < count[r] THEN "loop" ELSE "write"]
    /\ UNCHANGED response

\* pdf_buffer = cv_generator.create_pdf(cv_data) returns
BatchRendered(r) ==
    /\ pdf' = [pdf EXCEPT ![r] = create_pdf(cv[r], styles)]
    /\ rendered' = [rendered EXCEPT ![r] = @ + 1]
    /\ pc' = [pc EXCEPT ![r] = "write"]
    /\ UNCHANGED response

\* create_pdf returns the document or raises.
BatchRender(r) ==
    /\ pc[r] = "render"
    /\ \/ BatchRendered(r)
       \/ RenderFailure(r) /\ UNCHANGED <<pdf, rendered>>
    /\ UNCHANGED <<styles, rng, clock, kind, count, i, cv, zip, cvs, synthesized,
                   switches, story, experiences, filename>>

\* filename = ...; zip_file.writestr(filename, pdf_buffer.read())
BatchWrite(r) ==
    /\ pc[r] = "write"
    /\ zip' = [zip EXCEPT ![r] = Append(@,
                 [filename |-> BatchFilename(cv[r].personal.name, clock, i[r]),
                  content  |-> pdf[r]])]
    /\ i' = [i EXCEPT ![r] = @ + 1]
    /\ pc' = [pc EXCEPT ![r] = "loop"]
    /\ UNCHANGED <<styles, rng, clock, kind, count, cv, pdf, cvs, response,
                   synthesized, rendered, switches, story, experiences, filename>>

\* The loop is over: the archive is closed and returned.
BatchFinish(r) ==
    /\ pc[r] = "loop"
    /\ ~(i[r] < count[r])
    /\ response' = [response EXCEPT ![r] =
           [status |-> 200, media |-> "application/zip", body |-> zip[r],
            filename |-> ZipFilename(clock, count[r])]]
    /\ pc' = [pc EXCEPT ![r] = "done"]
    /\ UNCHANGED <<styles, rng, clock, kind, count, i, cv, pdf, zip, cvs,
                   synthesized, rendered, switches, story, experiences, filename>>

Init == InitWith({1}, None)

Next ==
    \/ \E c \in BatchCounts : BatchBegin(1, c)
    \/ BatchSynth(1)
    \/ BatchRender(1)
    \/ BatchWrite(1)
    \/ BatchFinish(1)

Spec == Init /\ [][Next]_vars

-----------------------------------------------------------------------------
(* generate_random_cv, generate_multiple_cvs, download_single_cv_pdf       *)

\* generate_random_cv: the record is synthesized and returned.
GenerateCv(r) ==
    /\ pc[r] = "idle"
    /\ kind' = [kind EXCEPT ![r] = "cv"]
    /\ \E name \in NamePool :
          /\ Synthesize(r, name)
          /\ response' = [response EXCEPT ![r] =
                 [status |-> 200, media |-> "application/json",
                  json |-> SynthRecord(name, clock)]]
    /\ pc' = [pc EXCEPT ![r] = "done"]
    /\ UNCHANGED <<styles, clock, count, i, pdf, zip, cvs, rendered, story,
                   experiences, filename>>

\* generate_multiple_cvs: if count > 20: raise; cvs = []
MultiBegin(r, c) ==
    /\ pc[r] = "idle"
    /\ kind' = [kind EXCEPT ![r] = "cvs"]
    /\ count' = [count EXCEPT ![r] = c]
    /\ IF TooMany(c)
       THEN /\ pc' = [pc EXCEPT ![r] = "rejected"]
            /\ response' = [response EXCEPT ![r] =
                   [status |-> 400,
                    detail |-> "Maximum 10 CVs can be generated at once"]]
            /\ UNCHANGED <<cvs, i>>
       ELSE /\ pc' = [pc EXCEPT ![r] = "collect"]
            /\ cvs' = [cvs EXCEPT ![r] = <<>>]
            /\ i' = [i EXCEPT ![r] = 0]
            /\ UNCHANGED response
    /\ UNCHANGED <<styles, rng, clock, cv, pdf, zip, synthesized, rendered,
                   switches, story, experiences, filename>>

MultiAppendToAll(r) ==
    cvs' = [q \in Reqs |-> Append(cvs[q], cv'[r])]

\* cvs.append(cv_data)
MultiAppend(r) ==
    cvs' = [cvs EXCEPT ![r] = Append(@, cv'[r])]

\* for _ in range(count): cv_data = {...}; cvs.append(cv_data)
MultiSynth(r) ==
    /\ pc[r] = "collect"
    /\ i[r] < count[r]
    /\ \E name \in NamePool : Synthesize(r, name)
    /\ MultiAppend(r)
    /\ i' = [i EXCEPT ![r] = @ + 1]
    /\ UNCHANGED <<styles, clock, pc, kind, count, pdf, zip, response, rendered,
                   story, experiences, filename>>

\* return {"cvs": cvs, "count": len(cvs)}
MultiFinish(r) ==
    /\ pc[r] = "collect"
    /\ ~(i[r] < count[r])
    /\ response' = [response EXCEPT ![r] =
           [status |-> 200, media |-> "application/json",
            json |-> [cvs |-> cvs[r], count |-> Len(cvs[r])]]]
    /\ pc' = [pc EXCEPT ![r] = "done"]
    /\ UNCHANGED <<styles, rng, clock, kind, count, i, cv, pdf, zip, cvs,
                   synthesized, rendered, switches, story, experiences, filename>>

\* download_single_cv_pdf: cv_data = {...}
SingleSynth(r) ==
    /\ pc[r] = "idle"
    /\ kind' = [kind EXCEPT ![r] = "pdf"]
    /\ \E name \in NamePool : Synthesize(r, name)
    /\ pc' = [pc EXCEPT ![r] = "render_one"]
    /\ UNCHANGED <<styles, clock, count, i, pdf, zip, cvs, response, rendered,
                   story, experiences, filename>>

\* pdf_buffer = cv_generator.create_pdf(cv_data), which returns or raises
SingleRender(r) ==
    /\ pc[r] = "render_one"
    /\ \/ /\ pdf' = [pdf EXCEPT ![r] = create_pdf(cv[r], styles)]
          /\ rendered' = [rendered EXCEPT ![r] = @ + 1]
          /\ pc' = [pc EXCEPT ![r] = "respond_one"]
          /\ UNCHANGED response
       \/ RenderFailure(r) /\ UNCHANGED <<pdf, rendered>>
    /\ UNCHANGED <<styles, rng, clock, kind, count, i, cv, zip, cvs, synthesized,
                   switches, story, experiences, filename>>

\* filename = ...; return StreamingResponse(...)
SingleRespond(r) ==
    /\ pc[r] = "respond_one"
    /\ response' = [response EXCEPT ![r] =
           [status |-> 200, media |-> "application/pdf", body |-> <<pdf[r]>>,
            filename |-> SingleFilename(cv[r].personal.name, clock)]]
    /\ pc' = [pc EXCEPT ![r] = "done"]
    /\ UNCHANGED <<styles, rng, clock, kind, count, i, cv, pdf, zip, cvs,
                   synthesized, rendered, switches, story, experiences, filename>>

-----------------------------------------------------------------------------
(* Two requests served at once, their steps interleaved in any order.      *)

ConcCounts == 0..MaxConcCount \cup {MaxCount + 1}

InitConc == InitWith({1, 2}, None)

NextConc ==
    \/ Tick
    \/ \E r \in Reqs :
          \/ GenerateCv(r)
          \/ \E c \in ConcCounts : MultiBegin(r, c)
          \/ MultiSynth(r)
          \/ MultiFinish(r)
          \/ SingleSynth(r)
          \/ SingleRender(r)
          \/ SingleRespond(r)
          \/ \E c \in ConcCounts : BatchBegin(r, c)
          \/ BatchSynth(r)
          \/ BatchRender(r)
          \/ BatchWrite(r)
          \/ BatchFinish(r)

SpecConc == InitConc /\ [][NextConc]_vars

-----------------------------------------------------------------------------
(* create_pdf on its own: a record is given, the story is built.           *)

\* The draws of one experience entry, its responsibilities 1..MaxResps.
ComposeExpDraws ==
    [end_days : {30}, start_days : {365}, position : {"Software Engineer"},
     company : {"TechCorp Inc."}, nresp : 1..MaxResps]

ComposeEduDraws ==
    [degree : {"Bachelor of Engineering"}, institution : {"State University"},
     grad_year : {2015}, with_gpa : BOOLEAN, gpa : {375}]

\* The records create_pdf is given: every shape of the lists within the bounds.
ValidRecords ==
    [personal       : {generate_personal_info(n) : n \in NamePool},
     experience     : UNION { {generate_work_experience(Clocks[1].day, ds) :
                                  ds \in [1..k -> ComposeExpDraws]} : k \in 0..MaxExps },
     education      : UNION { {generate_education(ds) : ds \in [1..k -> ComposeEduDraws]}
                              : k \in 0..MaxEdus },
     skills         : {generate_skills},
     certifications : CertSamples]

InitCompose == \E rec \in ValidRecords : InitWith({1}, rec)

\* create_pdf(cv_data): story = [...]; doc.build(story); return buffer
ComposePdf(r) ==
    /\ pc[r] = "idle"
    /\ story' = [story EXCEPT ![r] = Story(cv[r], styles)]
    /\ pdf' = [pdf EXCEPT ![r] = create_pdf(cv[r], styles)]
    /\ rendered' = [rendered EXCEPT ![r] = @ + 1]
    /\ pc' = [pc EXCEPT ![r] = "composed"]
    /\ UNCHANGED <<styles, rng, clock, kind, count, i, cv, zip, cvs, response,
                   synthesized, switches, experiences, filename>>

NextCompose == ComposePdf(1)

SpecCompose == InitCompose /\ [][NextCompose]_vars

-----------------------------------------------------------------------------
(* generate_work_experience on its own.                                    *)

\* What one iteration draws: random.randint(30, 365), random.randint(365, 1095)
\* at their ends, random.randint(2, 4) at its ends.
ExpDraws ==
    [end_days : {30, 365}, start_days : {365, 1095}, position : {"Software Engineer"},
     company : {"TechCorp Inc."}, nresp : {2, 4}]

\* experiences = []; current_date = datetime.now(); range(random.randint(2, 5))
ExpBegin(n) ==
    /\ pc[1] = "idle"
    /\ experiences' = <<>>
    /\ count' = [count EXCEPT ![1] = n]
    /\ i' = [i EXCEPT ![1] = 0]
    /\ pc' = [pc EXCEPT ![1] = "exp_loop"]
    /\ UNCHANGED <<styles, rng, clock, kind, cv, pdf, zip, cvs, response,
                   synthesized, rendered, switches, story, filename>>

\* One iteration: experiences.append(experience)
ExpIter(d) ==
    /\ pc[1] = "exp_loop"
    /\ i[1] < count[1]
    /\ experiences' = Append(experiences, ExperienceEntry(clock.day, i[1], d))
    /\ i' = [i EXCEPT ![1] = @ + 1]
    /\ UNCHANGED <<styles, rng, clock, pc, kind, count, cv, pdf, zip, cvs, response,
                   synthesized, rendered, switches, story, filename>>

\* return experiences
ExpReturn ==
    /\ pc[1] = "exp_loop"
    /\ ~(i[1] < count[1])
    /\ pc' = [pc EXCEPT ![1] = "exp_done"]
    /\ UNCHANGED <<styles, rng, clock, kind, count, i, cv, pdf, zip, cvs, response,
                   synthesized, rendered, switches, story, experiences, filename>>

NextExp ==
    \/ \E n \in MinExpEntries..MaxExpEntries : ExpBegin(n)
    \/ \E d \in ExpDraws : ExpIter(d)
    \/ ExpReturn

SpecExp == Init /\ [][NextExp]_vars

-----------------------------------------------------------------------------
(* The filename computations on their own, for any display name.           *)

NameAlphabet == {"A", " ", ",", "\t", "/"}

AnyNames == UNION { [1..k -> NameAlphabet] : k \in 1..MaxNameLen }

InitName == \E n \in AnyNames : InitWith({1}, SynthRecord(n, Clocks[1]))

\* download_single_cv_pdf, lines "Generate filename"
NameSingle(r) ==
    /\ pc[r] = "idle"
    /\ filename' = SingleFilename(cv[r].personal.name, clock)
    /\ pc' = [pc EXCEPT ![r] = "named"]
    /\ UNCHANGED <<styles, rng, clock, kind, count, i, cv, pdf, zip, cvs, response,
                   synthesized, rendered, switches, story, experiences>>

\* download_multiple_cvs_zip, lines "Generate filename", at loop index idx
NameBatch(r, idx) ==
    /\ pc[r] = "idle"
    /\ i' = [i EXCEPT ![r] = idx]
    /\ filename' = BatchFilename(cv[r].personal.name, clock, idx)
    /\ pc' = [pc EXCEPT ![r] = "named"]
    /\ UNCHANGED <<styles, rng, clock, kind, count, cv, pdf, zip, cvs, response,
                   synthesized, rendered, switches, story, experiences>>

NextName ==
    \/ NameSingle(1)
    \/ \E idx \in 0..(MaxCount - 1) : NameBatch(1, idx)

SpecName == InitName /\ [][NextName]_vars

-----------------------------------------------------------------------------
(* Properties of download_multiple_cvs_zip, checked under Spec.            *)

IsDigit(ch) == \E d \in 0..9 : Digit(d) = ch

DigitValue(ch) == CHOOSE d \in 0..9 : Digit(d) = ch

\* The filename f ends with "_", the number k as exactly three decimal
\* digits, and ".pdf".
HasIndexSuffix(f, k) ==
    LET n == Len(f)
    IN  /\ n >= 8
        /\ f[n - 7] = "_"
        /\ \A j \in (n - 6)..(n - 4) : IsDigit(f[j])
        /\ 100 * DigitValue(f[n - 6]) + 10 * DigitValue(f[n - 5]) + DigitValue(f[n - 4]) = k
        /\ SubSeq(f, n - 3, n) = <<".", "p", "d", "f">>

HasBody(resp) == resp # None /\ "body" \in DOMAIN resp

\* C1: a zip request with a count above the maximum of 20 is answered with
\* the invalid-request error (400) and no archive, and at no point of it has
\* a record been synthesized, a document rendered or an entry written.
C1_RejectedBeforeAnyWork ==
    \A r \in Reqs :
        (kind[r] = "zip" /\ count[r] > 20) =>
            /\ pc[r] = "rejected"
            /\ response[r] # None
            /\ response[r].status = 400
            /\ ~HasBody(response[r])
            /\ synthesized[r] = 0
            /\ rendered[r] = 0
            /\ zip[r] = <<>>

C1_Witness ==
    \E r \in Reqs : kind[r] = "zip" /\ count[r] = 21 /\ pc[r] = "rejected"

\* C2: a zip request with a count N in 1..20 that completes returns an
\* archive with exactly N entries, and the k-th entry's name ends with k as
\* three zero-padded digits before ".pdf".
C2_EntriesCountedAndIndexed ==
    \A r \in Reqs :
        (kind[r] = "zip" /\ pc[r] = "done" /\ count[r] \in 1..20) =>
            /\ HasBody(response[r])
            /\ Len(response[r].body) = count[r]
            /\ \A k \in 1..count[r] : HasIndexSuffix(response[r].body[k].filename, k)

C2_Witness ==
    \E r \in Reqs :
        /\ kind[r] = "zip" /\ pc[r] = "done" /\ count[r] = 20
        /\ Len(response[r].body) = 20

\* C3: in one archive, the filename about to be inserted differs from every
\* filename already inserted, at every point of the loop, and the names of
\* the returned archive are pairwise distinct.
C3_FilenamesNeverCollide ==
    \A r \in Reqs :
        /\ (kind[r] = "zip" /\ pc[r] = "write") =>
               \A a \in 1..Len(zip[r]) :
                   zip[r][a].filename # BatchFilename(cv[r].personal.name, clock, i[r])
        /\ (kind[r] = "zip" /\ pc[r] = "done") =>
               \A a, b \in 1..Len(zip[r]) :
                   a < b => zip[r][a].filename # zip[r][b].filename

\* Two entries of one archive carry the same display name and the same
\* timestamp: their names agree up to the index.
C3_Witness ==
    \E r \in Reqs :
        /\ kind[r] = "zip" /\ Len(zip[r]) >= 2
        /\ LET f == zip[r][1].filename
               g == zip[r][2].filename
           IN  /\ zip[r][1].content.title = zip[r][2].content.title
               /\ Len(f) = Len(g)
               /\ SubSeq(f, 1, Len(f) - 8) = SubSeq(g, 1, Len(g) - 8)

\* C4: when create_pdf fails at any position of a batch, the request fails
\* and returns no archive; an archive is returned only by a request that
\* rendered and inserted all of its count documents.
C4_NoPartialArchive ==
    \A r \in Reqs :
        kind[r] = "zip" =>
            /\ pc[r] = "failed" => (response[r].status = 500 /\ ~HasBody(response[r]))
            /\ HasBody(response[r]) =>
                   /\ pc[r] = "done"
                   /\ rendered[r] = count[r]
                   /\ Len(response[r].body) = count[r]

\* Rendering failed with entries already inserted.
C4_Witness ==
    \E r \in Reqs :
        kind[r] = "zip" /\ pc[r] = "failed" /\ Len(zip[r]) >= 1 /\ ~HasBody(response[r])

\* C9: the batch loop works on one document at a time: at most one record is
\* synthesized, and at most one document rendered, beyond those inserted,
\* and a record is being rendered only when all earlier ones are inserted.
C9_OneDocumentAtATime ==
    \A r \in Reqs :
        kind[r] = "zip" =>
            /\ rendered[r] - Len(zip[r]) \in {0, 1}
            /\ synthesized[r] - Len(zip[r]) \in {0, 1}
            /\ pc[r] = "render" => rendered[r] = Len(zip[r])
            /\ pc[r] = "loop" => synthesized[r] = Len(zip[r])

\* The second document is rendered, the first is in the archive.
C9_Witness ==
    \E r \in Reqs :
        kind[r] = "zip" /\ pc[r] = "write" /\ rendered[r] = 2 /\ Len(zip[r]) = 1

-----------------------------------------------------------------------------
(* Properties of concurrent requests, checked under SpecConc.              *)

\* Everything request r holds of its own.
Local(r) ==
    <<pc[r], kind[r], count[r], i[r], cv[r], pdf[r], zip[r], cvs[r], response[r],
      synthesized[r], rendered[r], switches[r], story[r]>>

\* C10 as stated: no step of a request writes state that requests share: the
\* style sheet and the random sources stay as they were constructed.
C10_NoSharedStateIsWritten ==
    [][styles' = styles /\ rng' = rng]_vars

\* C10 as amended: no step modifies the style sheet, and every step changes
\* the record, documents, archive, list and response of at most one request.
\* (The steps that synthesize a record do advance the shared random sources.)
C10_RequestsShareOnlySourcesAndStyles ==
    [][ /\ styles' = styles
        /\ \E q \in Reqs : \A r \in Reqs \ {q} : Local(r)' = Local(r) ]_vars

\* Two requests are under way at once, each with a record synthesized.
C10_Witness ==
    /\ pc[1] = "write" /\ pc[2] = "collect"
    /\ synthesized[1] >= 1 /\ synthesized[2] >= 1
    /\ rng.random >= 2

-----------------------------------------------------------------------------
(* Properties of the story, checked under SpecCompose.                     *)

\* The kind of layout block a flowable of the story is.
BlockKind(b) ==
    IF b.type = "Spacer" THEN "Spacer"
    ELSE IF b.style.name = "CVTitle" THEN "Title"
    ELSE IF b.style.name = "ContactInfo" THEN "ContactLine"
    ELSE IF b.style.name = "SectionHeader" THEN "SectionHeader"
    ELSE IF b.text[1] = Bullet THEN "BulletItem"
    ELSE "BodyText"

\* A block's kind and, of a section header, its title.
Shape(b) ==
    [kind  |-> BlockKind(b),
     label |-> IF BlockKind(b) = "SectionHeader" THEN b.text[1] ELSE ""]

Shapes(blocks) == [k \in 1..Len(blocks) |-> Shape(blocks[k])]

Blk(k) == [kind |-> k, label |-> ""]

Header(label) == [kind |-> "SectionHeader", label |-> label]

Times(n, blk) == [k \in 1..n |-> blk]

\* Step 4, the entries: per entry one BodyText, one BulletItem per
\* responsibility, one Spacer.
RECURSIVE ExperienceSteps(_)
ExperienceSteps(exps) ==
    IF exps = <<>> THEN <<>>
    ELSE <<Blk("BodyText")>> \o Times(Len(Head(exps).responsibilities), Blk("BulletItem"))
         \o <<Blk("Spacer")>> \o ExperienceSteps(Tail(exps))

\* Step 5, the entries: per entry one BodyText and one Spacer.
RECURSIVE EducationSteps(_)
EducationSteps(edus) ==
    IF edus = <<>> THEN <<>>
    ELSE <<Blk("BodyText"), Blk("Spacer")>> \o EducationSteps(Tail(edus))

\* The blocks of steps 1-7 for a record; afterSummary: what follows the
\* summary's BodyText before the WORK EXPERIENCE header.
StepsWith(rec, afterSummary) ==
    <<Blk("Title"), Blk("ContactLine"), Header("PROFESSIONAL SUMMARY"), Blk("BodyText")>>
    \o afterSummary
    \o <<Header("WORK EXPERIENCE")>> \o ExperienceSteps(rec.experience)
    \o <<Header("EDUCATION")>> \o EducationSteps(rec.education)
    \o <<Header("SKILLS"), Blk("BodyText"), Blk("BodyText"), Blk("Spacer")>>
    \o (IF rec.certifications # <<>>
        THEN <<Header("CERTIFICATIONS")>>
             \o Times(Len(rec.certifications), Blk("BulletItem"))
        ELSE <<>>)

\* C5 as stated: the story is exactly the blocks of steps 1-7, in that order.
C5_StoryIsSteps1To7 ==
    \A r \in Reqs :
        pc[r] = "composed" => Shapes(story[r]) = StepsWith(cv[r], <<>>)

\* C5 as amended: the story is exactly the blocks of steps 1-7, in that
\* order, with one Spacer between the summary's BodyText and the WORK
\* EXPERIENCE header.
C5_StoryIsSteps1To7WithSummarySpacer ==
    \A r \in Reqs :
        pc[r] = "composed" => Shapes(story[r]) = StepsWith(cv[r], <<Blk("Spacer")>>)

\* A story of a record with two experience entries, one of them with two
\* responsibilities, an education entry with a GPA, and certifications.
C5_Witness ==
    \E r \in Reqs :
        /\ pc[r] = "composed"
        /\ Len(cv[r].experience) = 2
        /\ Len(cv[r].experience[2].responsibilities) = 2
        /\ Len(cv[r].education) >= 1
        /\ cv[r].education[1].gpa # Absent
        /\ Len(cv[r].certifications) = 2
        /\ Len(story[r]) > 12

\* C6: the story's first block is a Title, no later block is one, and with
\* no certifications the story has no CERTIFICATIONS section header.
C6_OneTitleAndNoEmptyCertifications ==
    \A r \in Reqs :
        pc[r] = "composed" =>
            /\ Len(story[r]) >= 1
            /\ BlockKind(story[r][1]) = "Title"
            /\ \A k \in 2..Len(story[r]) : BlockKind(story[r][k]) # "Title"
            /\ cv[r].certifications = <<>> =>
                   \A k \in 1..Len(story[r]) : Shape(story[r][k]) # Header("CERTIFICATIONS")

\* A story of a record without certifications.
C6_Witness ==
    \E r \in Reqs :
        /\ pc[r] = "composed"
        /\ cv[r].certifications = <<>>
        /\ Len(cv[r].experience) >= 1
        /\ Len(story[r]) > 10

-----------------------------------------------------------------------------
(* Properties of generate_work_experience, checked under SpecExp.          *)

\* An end date as a number of months: parsed back from "mm/YYYY", and later
\* than every month for "Present".
EndMonths(e) ==
    IF e = Present THEN 999999
    ELSE (1000 * DigitValue(e[4]) + 100 * DigitValue(e[5]) + 10 * DigitValue(e[6])
          + DigitValue(e[7])) * 12
         + 10 * DigitValue(e[1]) + DigitValue(e[2])

\* C7: the list generate_work_experience returns is most-recent-first: no
\* entry ends earlier than the entry after it.
C7_MostRecentFirst ==
    pc[1] = "exp_done" =>
        \A k \in 1..(Len(experiences) - 1) :
            EndMonths(experiences[k].end_date) >= EndMonths(experiences[k + 1].end_date)

-----------------------------------------------------------------------------
(* Properties of the filenames, checked under SpecName.                    *)

Whitespace == {" ", "\t", "\n", "\r"}

\* The characters that may not occur in a file name (POSIX and Windows).
IllegalInFilenames == {"/", "\\", ":", "*", "?", "\"", "<", ">", "|"}

====
